---- MODULE Spec2Model ----
(***************************************************************************)
(* The Live Session Engine of the Sparky companion client (src/App.tsx).   *)
(* The file holds two variants of the engine: variant A (lines 1-708) and  *)
(* variant B (lines 709-1473).  The variable `variant` selects the one a   *)
(* behaviour runs.                                                         *)
(*                                                                         *)
(* Every handler of the source is an operator from the engine state (a     *)
(* record of all variables, State) to the engine state after the handler;  *)
(* an action commits the result of one handler, or of one continuation of  *)
(* an async function between two awaits.                                   *)
(*                                                                         *)
(* React state (useState) holds the committed value.  The refs that mirror *)
(* state through useEffect (robotStateRef, isActiveRef, currentInputRef,   *)
(* currentOutputRef) are brought up to date by RunEffects: at once in a    *)
(* click handler (React flushes a discrete event's render and effects      *)
(* synchronously), later and at any time after a network, timer or audio   *)
(* callback.                                                               *)
(***************************************************************************)
EXTENDS Integers, Sequences, FiniteSets, TLC

(* ------------------------------ bounds -------------------------------- *)
MaxStarts == 2      \* startSession calls made by the user (wake / Re-Sync)
MaxMsgs   == 2      \* server events delivered (messages and onerror)
MaxClock  == 2      \* ticks of the output AudioContext clock
MaxFrames == 2      \* microphone frames captured
MaxErrs   == 1      \* onerror events of a channel
MaxLog    == 2      \* history keeps its last MaxLog entries
MaxEvents == 2      \* perception events delivered by the avatar
MaxImages == 2      \* firings of the frame-capture interval timers
MaxPending == 2     \* camera requests awaiting getUserMedia at once

(* -------------------------- program constants ------------------------- *)
RetryBoundA == 2    \* retryCount < 2
MAX_RETRIES == 3
NormalClosure == 1000
AbnormalClosure == 1006

RobotStates == {"IDLE", "CONNECTING", "LISTENING", "THINKING", "SPEAKING", "ERROR"}
CloseCodes == {NormalClosure, AbnormalClosure}
GumErrors == {"NotAllowedError", "other"}          \* getUserMedia rejections
ConnectErrors == {"API_KEY", "other"}              \* ai.live.connect rejections
ChannelErrors == {"API_KEY", "other"}              \* onerror events
Durations == {1, 2}                                \* audioBuffer.duration
Tokens == {"Hello", " there"}                      \* transcription texts

Procs == 1..MaxStarts
NoProc == 0

VARIABLES
  variant, apiKey,
  \* useState
  robotState, mood, isActive, isCameraOn, isMuted, isDeafened, history,
  volume, isInitialized, errorDetail, liveInput, liveOutput,
  \* useRef
  sessionPromiseRef, sessionRef, robotStateRef, isActiveRef, isMutedRef,
  isDeafenedRef, currentInputRef, currentOutputRef, inputAudioCtxRef,
  outputAudioCtxRef, nextStartTimeRef, sourcesRef, streamRef,
  \* the environment: startSession invocations and their channels, the
  \* number of live microphone streams, the output clock, audio nodes, pending decodes,
  \* frames, tool responses and text events sent, perception events delivered
  procs, streams, clock, nodes, stoppedPending, jobs, sent, toolResponses,
  textSent,
  nStarts, nMsgs, nSrc, nFrames, nErrs, nEvents,
  \* the camera: whether the timer frameIntervalRef names and the stream
  \* videoRef.srcObject holds are live, the live interval timers and camera
  \* streams, the image frames sent and the firings of the timers
  frameIntervalRef, srcObject, timers, camStreams, imgSent, nImages,
  \* history variables the properties read
  authPc, camPending,
  lastOp, shutdownSinceWake, chainEnd, lastSched, handledCalls,
  recvIn, recvOut, lastFlush

vars == <<variant, apiKey, robotState, mood, isActive, isCameraOn, isMuted,
          isDeafened, history, volume, isInitialized, errorDetail, liveInput,
          liveOutput, sessionPromiseRef, sessionRef, robotStateRef,
          isActiveRef, isMutedRef, isDeafenedRef, currentInputRef,
          currentOutputRef, inputAudioCtxRef, outputAudioCtxRef,
          nextStartTimeRef, sourcesRef, streamRef, procs, streams, clock,
          nodes, stoppedPending, jobs, sent, toolResponses, nStarts, nMsgs,
          nSrc, nFrames, nErrs, textSent, nEvents, frameIntervalRef,
          srcObject, timers, camStreams, imgSent, nImages, authPc, camPending,
          lastOp, shutdownSinceWake, chainEnd,
          lastSched, handledCalls, recvIn, recvOut, lastFlush>>

State ==
  [variant |-> variant, apiKey |-> apiKey, robotState |-> robotState,
   mood |-> mood, isActive |-> isActive, isCameraOn |-> isCameraOn,
   isMuted |-> isMuted, isDeafened |-> isDeafened, history |-> history,
   volume |-> volume, isInitialized |-> isInitialized,
   errorDetail |-> errorDetail, liveInput |-> liveInput,
   liveOutput |-> liveOutput, sessionPromiseRef |-> sessionPromiseRef,
   sessionRef |-> sessionRef, robotStateRef |-> robotStateRef,
   isActiveRef |-> isActiveRef, isMutedRef |-> isMutedRef,
   isDeafenedRef |-> isDeafenedRef, currentInputRef |-> currentInputRef,
   currentOutputRef |-> currentOutputRef,
   inputAudioCtxRef |-> inputAudioCtxRef,
   outputAudioCtxRef |-> outputAudioCtxRef,
   nextStartTimeRef |-> nextStartTimeRef, sourcesRef |-> sourcesRef,
   streamRef |-> streamRef, procs |-> procs, streams |-> streams,
   clock |-> clock, nodes |-> nodes, stoppedPending |-> stoppedPending,
   jobs |-> jobs, sent |-> sent, toolResponses |-> toolResponses,
   nStarts |-> nStarts, nMsgs |-> nMsgs, nSrc |-> nSrc, nFrames |-> nFrames,
   nErrs |-> nErrs, textSent |-> textSent, nEvents |-> nEvents,
   frameIntervalRef |-> frameIntervalRef, srcObject |-> srcObject,
   timers |-> timers, camStreams |-> camStreams, imgSent |-> imgSent,
   nImages |-> nImages,
   authPc |-> authPc, camPending |-> camPending,
   lastOp |-> lastOp, shutdownSinceWake |-> shutdownSinceWake,
   chainEnd |-> chainEnd, lastSched |-> lastSched,
   handledCalls |-> handledCalls, recvIn |-> recvIn, recvOut |-> recvOut,
   lastFlush |-> lastFlush]

Commit(n) ==
  /\ variant' = n.variant /\ apiKey' = n.apiKey
  /\ robotState' = n.robotState /\ mood' = n.mood /\ isActive' = n.isActive
  /\ isCameraOn' = n.isCameraOn /\ isMuted' = n.isMuted
  /\ isDeafened' = n.isDeafened /\ history' = n.history
  /\ volume' = n.volume /\ isInitialized' = n.isInitialized
  /\ errorDetail' = n.errorDetail /\ liveInput' = n.liveInput
  /\ liveOutput' = n.liveOutput
  /\ sessionPromiseRef' = n.sessionPromiseRef /\ sessionRef' = n.sessionRef
  /\ robotStateRef' = n.robotStateRef /\ isActiveRef' = n.isActiveRef
  /\ isMutedRef' = n.isMutedRef /\ isDeafenedRef' = n.isDeafenedRef
  /\ currentInputRef' = n.currentInputRef
  /\ currentOutputRef' = n.currentOutputRef
  /\ inputAudioCtxRef' = n.inputAudioCtxRef
  /\ outputAudioCtxRef' = n.outputAudioCtxRef
  /\ nextStartTimeRef' = n.nextStartTimeRef /\ sourcesRef' = n.sourcesRef
  /\ streamRef' = n.streamRef /\ procs' = n.procs /\ streams' = n.streams
  /\ clock' = n.clock /\ nodes' = n.nodes
  /\ stoppedPending' = n.stoppedPending /\ jobs' = n.jobs /\ sent' = n.sent
  /\ toolResponses' = n.toolResponses /\ nStarts' = n.nStarts
  /\ nMsgs' = n.nMsgs /\ nSrc' = n.nSrc /\ nFrames' = n.nFrames
  /\ nErrs' = n.nErrs /\ textSent' = n.textSent /\ nEvents' = n.nEvents
  /\ frameIntervalRef' = n.frameIntervalRef /\ srcObject' = n.srcObject
  /\ timers' = n.timers /\ camStreams' = n.camStreams
  /\ imgSent' = n.imgSent /\ nImages' = n.nImages
  /\ lastOp' = n.lastOp /\ shutdownSinceWake' = n.shutdownSinceWake
  /\ authPc' = n.authPc /\ camPending' = n.camPending
  /\ chainEnd' = n.chainEnd /\ lastSched' = n.lastSched
  /\ handledCalls' = n.handledCalls
  /\ recvIn' = n.recvIn /\ recvOut' = n.recvOut /\ lastFlush' = n.lastFlush

Max(a, b) == IF a >= b THEN a ELSE b

\* One startSession invocation: where it waits (pc), its retryCount, the
\* isInitialized and isActive its closure captured, the state of the channel
\* its ai.live.connect made (ch), whether its onopen wired the sampler, and
\* how many times it entered and left its try block through the catch, and
\* the text events and the image frames waiting in then-callbacks of its
\* sessionPromise.
NewProc == [pc |-> "unused", retry |-> 0, init |-> FALSE, act |-> FALSE,
            ch |-> "none", sampler |-> FALSE, attempts |-> 0, fails |-> 0,
            texts |-> <<>>, images |-> 0]

NoNodes == [n \in {} |-> 0]
\* No fragment was scheduled, no turn was flushed, in the last step.
NoSched == [prev |-> -2, start |-> 0, clock |-> 0, dur |-> 0]
NoFlush == [flushed |-> FALSE, expIn |-> <<>>, expOut |-> <<>>,
            gotIn |-> <<>>, gotOut |-> <<>>]

Init ==
  /\ variant \in {"A", "B"}
  /\ apiKey \in BOOLEAN
  /\ robotState = "IDLE" /\ mood = "neutral" /\ isActive = FALSE
  /\ isCameraOn = FALSE /\ isMuted = FALSE /\ isDeafened = FALSE
  /\ history = <<>> /\ volume = 0 /\ isInitialized = FALSE
  /\ errorDetail = "none" /\ liveInput = <<>> /\ liveOutput = <<>>
  /\ sessionPromiseRef = NoProc /\ sessionRef = NoProc
  /\ robotStateRef = "IDLE" /\ isActiveRef = FALSE /\ isMutedRef = FALSE
  /\ isDeafenedRef = FALSE /\ currentInputRef = <<>>
  /\ currentOutputRef = <<>> /\ inputAudioCtxRef = FALSE
  /\ outputAudioCtxRef = FALSE /\ nextStartTimeRef = 0 /\ sourcesRef = {}
  /\ streamRef = FALSE
  /\ procs = [p \in Procs |-> NewProc] /\ streams = 0 /\ clock = 0
  /\ nodes = NoNodes /\ stoppedPending = 0 /\ jobs = <<>> /\ sent = <<>>
  /\ toolResponses = <<>> /\ nStarts = 0 /\ nMsgs = 0 /\ nSrc = 0
  /\ nFrames = 0 /\ nErrs = 0 /\ textSent = <<>> /\ nEvents = 0
  /\ frameIntervalRef = FALSE /\ srcObject = FALSE /\ timers = 0
  /\ camStreams = 0 /\ imgSent = 0 /\ nImages = 0
  /\ authPc = "idle" /\ camPending = 0
  /\ lastOp = "other" /\ shutdownSinceWake = FALSE /\ chainEnd = -1
  /\ lastSched = NoSched /\ handledCalls = {}
  /\ recvIn = <<>> /\ recvOut = <<>> /\ lastFlush = NoFlush

(* ---------------------------- the handlers ---------------------------- *)

\* useEffect([robotState]), useEffect([isActive]) and, in variant B,
\* useEffect([currentInput, currentOutput]): the refs take the state's value.
RunEffectsOn(s) ==
  [s EXCEPT !.robotStateRef = s.robotState,
            !.isActiveRef = IF s.variant = "A" THEN s.isActive ELSE @,
            !.currentInputRef = IF s.variant = "B" THEN s.liveInput ELSE @,
            !.currentOutputRef = IF s.variant = "B" THEN s.liveOutput ELSE @]

\* The log is append-only; the model keeps its last MaxLog entries.
LastEntries(h) ==
  IF Len(h) <= MaxLog THEN h ELSE SubSeq(h, Len(h) - MaxLog + 1, Len(h))

addLog(s, type, text) ==
  IF text = <<>> THEN s
  ELSE [s EXCEPT !.history = LastEntries(Append(@, [type |-> type,
                                                     text |-> text]))]

\* for (source of sourcesRef) source.stop(); sourcesRef.clear(): each stopped
\* node still owes its ended event.
StopSources(s) ==
  [s EXCEPT !.stoppedPending = @ + Cardinality(s.sourcesRef),
            !.sourcesRef = {},
            !.nodes = NoNodes]

\* The state setters of stopSession, from setIsActive(false) on.
resetState_keepsCameraAndMood(s) ==
  [s EXCEPT !.isActive = FALSE, !.robotState = "IDLE", !.volume = 0,
            !.liveInput = <<>>, !.liveOutput = <<>>]

resetState(s) ==
  [s EXCEPT !.isActive = FALSE,
            !.isCameraOn = FALSE,
            !.robotState = "IDLE",
            !.mood = "neutral",
            !.volume = 0,
            !.liveInput = <<>>,
            !.liveOutput = <<>>]

stopSession(s) ==
  LET closed == IF s.sessionRef # NoProc /\ s.procs[s.sessionRef].ch = "open"
                THEN [s EXCEPT !.procs[s.sessionRef].ch = "closing"] ELSE s
      quiet == StopSources(closed)
      torn == [quiet EXCEPT
                 !.procs = [p \in Procs |-> [@[p] EXCEPT !.sampler = FALSE]],
                 !.streams = IF s.streamRef THEN @ - 1 ELSE @,
                 !.timers = IF s.frameIntervalRef THEN @ - 1 ELSE @,
                 !.frameIntervalRef = FALSE,
                 !.sessionRef = NoProc,
                 !.sessionPromiseRef = NoProc,
                 !.inputAudioCtxRef = FALSE,
                 !.outputAudioCtxRef = FALSE,
                 !.clock = 0,
                 !.streamRef = FALSE,
                 !.nextStartTimeRef = 0,
                 !.chainEnd = -1,
                 !.recvIn = <<>>,
                 !.recvOut = <<>>]
  IN IF s.variant = "A"
     THEN addLog(resetState(torn), "system", <<"NEURAL LINK DEACTIVATED.">>)
     ELSE resetState([torn EXCEPT !.currentInputRef = <<>>,
                                  !.currentOutputRef = <<>>])

ErrorType(err) ==
  IF err = "unsupported" THEN "warning"
  ELSE IF err \in {"NotAllowedError", "API_KEY"} THEN "critical"
  ELSE "warning"

\* Variant A only.
handleError(s, err) ==
  LET shown == addLog([s EXCEPT !.errorDetail = ErrorType(err)],
                      "system", <<"ERROR", err>>)
  IN IF ErrorType(err) = "critical"
     THEN [stopSession(shown) EXCEPT !.robotState = "ERROR"]
     ELSE shown

\* startSession from the creation of the audio contexts to the await of the
\* microphone stream.
CreateContexts(s) ==
  [s EXCEPT !.inputAudioCtxRef = TRUE,
            !.outputAudioCtxRef = TRUE,
            !.clock = IF s.outputAudioCtxRef THEN @ ELSE 0]

BeginConnect(s, p) ==
  [CreateContexts(s) EXCEPT
     !.robotState = "CONNECTING",
     !.errorDetail = "none",
     !.isActive = TRUE,
     !.nextStartTimeRef = 0,
     !.chainEnd = -1,
     !.procs[p].attempts = @ + 1,
     !.procs[p].pc = "mic"]

startSession_noKeyTest(s, p) ==
  IF s.variant = "A"
  THEN IF ~s.procs[p].init
       THEN [s EXCEPT !.robotState = "CONNECTING", !.errorDetail = "none",
                      !.procs[p].pc = "init"]
       ELSE BeginConnect(s, p)
  ELSE IF ~s.procs[p].init
       THEN [CreateContexts(s) EXCEPT
               !.robotState = "CONNECTING", !.errorDetail = "none",
               !.procs[p].pc = "init"]
       ELSE BeginConnect(s, p)

\* startSession up to its first await, for the invocation p.
startSession(s, p) ==
  IF ~s.apiKey
  THEN LET done == [s EXCEPT !.procs[p].pc = "done"]
       IN IF s.variant = "A" THEN handleError(done, "API_KEY")
          ELSE [done EXCEPT !.robotState = "ERROR", !.errorDetail = "critical"]
  ELSE IF s.variant = "A"
  THEN IF ~s.procs[p].init
       THEN [s EXCEPT !.robotState = "CONNECTING", !.errorDetail = "none",
                      !.procs[p].pc = "init"]
       ELSE BeginConnect(s, p)
  ELSE IF ~s.procs[p].init
       THEN [CreateContexts(s) EXCEPT
               !.robotState = "CONNECTING", !.errorDetail = "none",
               !.procs[p].pc = "init"]
       ELSE BeginConnect(s, p)

\* The continuation of handleInitialization after getUserMedia, and what the
\* caller does with its result.
AfterInit(s, p, ok, err) ==
  IF s.variant = "A"
  THEN IF ok THEN BeginConnect([s EXCEPT !.isInitialized = TRUE], p)
       ELSE handleError([s EXCEPT !.procs[p].pc = "done"], err)
  ELSE IF ok THEN [s EXCEPT !.isInitialized = TRUE, !.robotState = "IDLE",
                            !.procs[p].pc = "done"]
       ELSE [s EXCEPT !.errorDetail = "critical", !.robotState = "ERROR",
                      !.procs[p].pc = "done"]

RetryBound(s) == IF s.variant = "A" THEN RetryBoundA ELSE MAX_RETRIES

CatchStart_retriesOnceMore(s, p, err) ==
  IF s.procs[p].retry <= RetryBound(s)
  THEN [s EXCEPT !.procs[p].pc = "timer", !.procs[p].fails = @ + 1]
  ELSE LET done == [s EXCEPT !.procs[p].pc = "done", !.procs[p].fails = @ + 1]
       IN IF s.variant = "A" THEN handleError(done, err)
          ELSE [done EXCEPT !.robotState = "ERROR", !.errorDetail = "critical"]

\* The catch block of startSession.
CatchStart(s, p, err) ==
  IF s.procs[p].retry < RetryBound(s)
  THEN [s EXCEPT !.procs[p].pc = "timer", !.procs[p].fails = @ + 1]
  ELSE LET done == [s EXCEPT !.procs[p].pc = "done", !.procs[p].fails = @ + 1]
       IN IF s.variant = "A" THEN handleError(done, err)
          ELSE [done EXCEPT !.robotState = "ERROR", !.errorDetail = "critical"]

\* The continuation after getUserMedia({audio}): the stream is kept and
\* ai.live.connect is called.
AfterMic(s, p, ok, err) ==
  IF ok
  THEN [s EXCEPT !.streams = @ + 1,
                 !.streamRef = TRUE,
                 !.sessionPromiseRef = IF s.variant = "A" THEN p ELSE @,
                 !.procs[p].ch = "connecting",
                 !.procs[p].pc = "connect"]
  ELSE CatchStart(s, p, err)

\* speakText up to its await of the TTS request (variant A).
speakText(s, p) ==
  IF ~s.apiKey \/ s.isDeafenedRef THEN s
  ELSE [s EXCEPT !.jobs = Append(@, [kind |-> "tts", p |-> p, rest |-> <<>>,
                                      intr |-> FALSE, tc |-> FALSE,
                                      inT |-> <<>>, outT |-> <<>>,
                                      stale |-> FALSE, deaf |-> FALSE])]

onopen(s, p) ==
  LET listening == [s EXCEPT !.robotState = "LISTENING",
                             !.procs[p].ch = "open"]
  IN IF s.variant = "A"
     THEN LET greeted == speakText(addLog(listening, "system",
                                          <<"NEURAL LINK ESTABLISHED.">>), p)
          IN [greeted EXCEPT !.procs[p].sampler = s.inputAudioCtxRef]
     ELSE [listening EXCEPT !.procs[p].sampler = s.inputAudioCtxRef]

\* The channel opened: onopen runs, then the await of sessionPromise resumes.
\* In variant A onopen throws when the input context is gone; whether the
\* library still resolves the promise then is its own business (resolves).
\* Variant A's onopen sends one chunk of silence (frame 0) through the promise.
\* The then-callbacks registered on the promise while it was pending run.
AfterConnect(s, p, ok, err, resolves) ==
  IF ok
  THEN LET opened == onopen(s, p)
       IN IF s.variant = "A" /\ ~s.inputAudioCtxRef /\ ~resolves
          THEN [opened EXCEPT !.procs[p].pc = "done"]
          ELSE [opened EXCEPT !.sessionRef = p,
                              !.sessionPromiseRef = p,
                              !.sent = IF s.variant = "A" THEN Append(@, 0)
                                       ELSE @,
                              !.textSent = @ \o s.procs[p].texts,
                              !.procs[p].texts = <<>>,
                              !.imgSent = @ + s.procs[p].images,
                              !.procs[p].images = 0,
                              !.procs[p].pc = "done"]
  ELSE CatchStart([s EXCEPT !.procs[p].ch = "none",
                            !.procs[p].images = 0], p, err)

onclose(s, p, code) ==
  LET gone == [s EXCEPT !.procs[p].ch = "closed"]
  IN IF s.variant = "A"
     THEN IF code # NormalClosure /\ s.isActiveRef
          THEN handleError(gone, "other")
          ELSE [gone EXCEPT !.robotState = "IDLE", !.isActive = FALSE]
     ELSE IF code # NormalClosure /\ s.procs[p].act
          THEN [gone EXCEPT !.robotState = "ERROR", !.errorDetail = "critical"]
          ELSE [gone EXCEPT !.robotState = "IDLE", !.isActive = FALSE]

onerror(s, err) ==
  IF s.variant = "A" THEN handleError(s, err)
  ELSE [s EXCEPT !.robotState = "ERROR", !.errorDetail = "warning"]

(* ------------------------- lifecycle actions -------------------------- *)

Op(s, name) == IF s.lastOp = "interrupted" THEN s ELSE [s EXCEPT !.lastOp = name]

\* The state an action starts from: the records of the last scheduling and
\* of the last turn flush describe one step only.
Fresh == [State EXCEPT !.lastSched = NoSched, !.lastFlush = NoFlush,
                       !.lastOp = "other"]

\* The power button while isActive is false, and the Re-Sync button of
\* variant B's critical error banner: startSession().
StartBy(s, p) ==
  startSession([s EXCEPT !.nStarts = p,
                         !.shutdownSinceWake = FALSE,
                         !.procs[p] = [NewProc EXCEPT
                                         !.init = s.isInitialized,
                                         !.act = s.isActive]], p)

Wake ==
  /\ ~isActive
  /\ nStarts < MaxStarts
  /\ Commit(Op(RunEffectsOn(StartBy(Fresh, nStarts + 1)), "wake"))

ReSync ==
  /\ variant = "B"
  /\ errorDetail = "critical"
  /\ nStarts < MaxStarts
  /\ Commit(Op(RunEffectsOn(StartBy(Fresh, nStarts + 1)), "wake"))

\* The power button while isActive is true: stopSession().
Shutdown ==
  /\ isActive
  /\ Commit(Op(RunEffectsOn([stopSession(Fresh) EXCEPT
                               !.shutdownSinceWake = TRUE]), "stopSession"))

InitResolves(p, outcomes) ==
  /\ procs[p].pc = "init"
  /\ \E ok \in outcomes : \E err \in GumErrors :
       /\ ok => err = "other"
       /\ Commit(Op(AfterInit(Fresh, p, ok, err), "other"))

MicResolves(p, outcomes) ==
  /\ procs[p].pc = "mic"
  /\ \E ok \in outcomes : \E err \in GumErrors :
       /\ ok => err = "other"
       /\ Commit(Op(AfterMic(Fresh, p, ok, err), "other"))

ConnectResolves(p, outcomes) ==
  /\ procs[p].pc = "connect"
  /\ \E ok \in outcomes : \E err \in ConnectErrors : \E resolves \in BOOLEAN :
       /\ ok => err = "other"
       /\ (~ok \/ variant = "B" \/ inputAudioCtxRef) => resolves
       /\ Commit(Op(AfterConnect(Fresh, p, ok, err, resolves),
                    "other"))

\* setTimeout(() => startSession(retryCount + 1), delay) fires.
RetryTimer(p) ==
  /\ procs[p].pc = "timer"
  /\ Commit(Op(startSession([Fresh EXCEPT !.procs[p].retry = @ + 1], p),
               "other"))

\* The step is named oncloseAbnormal when the code is not 1000 while isActive
\* and its ref are true.
OnClose(p) ==
  /\ procs[p].ch \in {"open", "closing"}
  /\ \E code \in CloseCodes :
       Commit(Op(onclose(Fresh, p, code),
                 IF /\ code # NormalClosure /\ isActive
                    /\ variant = "A" => isActiveRef
                 THEN "oncloseAbnormal" ELSE "other"))

OnError(p) ==
  /\ procs[p].ch = "open"
  /\ nErrs < MaxErrs
  /\ \E err \in ChannelErrors :
       Commit(Op(onerror([Fresh EXCEPT !.nErrs = @ + 1], err), "other"))

RunEffects ==
  /\ State # RunEffectsOn(State)
  /\ Commit(Op(RunEffectsOn(Fresh), "other"))

(* ------------------------- playback scheduler ------------------------- *)

interrupt_thinking(s) ==
  LET quiet == StopSources(s)
  IN [quiet EXCEPT !.nextStartTimeRef = 0,
                   !.chainEnd = -1,
                   !.lastOp = "interrupted",
                   !.robotState = "THINKING",
                   !.volume = 0,
                   !.liveOutput = IF s.variant = "A" THEN <<>> ELSE @,
                   !.jobs = [i \in DOMAIN @ |-> [@[i] EXCEPT !.stale = TRUE]]]

\* The handling of serverContent.interrupted.
interrupt(s) ==
  LET quiet == StopSources(s)
  IN [quiet EXCEPT !.nextStartTimeRef = 0,
                   !.chainEnd = -1,
                   !.lastOp = "interrupted",
                   !.robotState = "LISTENING",
                   !.volume = 0,
                   !.liveOutput = IF s.variant = "A" THEN <<>> ELSE @,
                   !.jobs = [i \in DOMAIN @ |-> [@[i] EXCEPT !.stale = TRUE]]]

StartTimeA_cursorOnly(s) == s.nextStartTimeRef

\* Variant A: const startTime = Math.max(nextStartTimeRef.current, currentTime)
StartTimeA(s) == Max(s.nextStartTimeRef, s.clock)

\* The code after the await of decodeAudioData: the source node is made,
\* started and registered.  `at` is when the node begins to sound: a start
\* time already in the past plays at the current clock.
schedule(s, dur, stale, deaf) ==
  LET start == IF s.variant = "A" THEN StartTimeA(s) ELSE s.nextStartTimeRef
      at == Max(start, s.clock)
      id == s.nSrc + 1
  IN [s EXCEPT !.robotState = "SPEAKING",
               !.nSrc = id,
               !.nodes = [n \in (DOMAIN @) \cup {id} |->
                            IF n = id
                            THEN [start |-> start, at |-> at, end |-> at + dur,
                                  stale |-> stale, deaf |-> deaf]
                            ELSE @[n]],
               !.nextStartTimeRef = start + dur,
               !.sourcesRef = @ \cup {id},
               !.chainEnd = start + dur,
               !.lastSched = [prev |-> s.chainEnd, start |-> start,
                              clock |-> s.clock, dur |-> dur]]

\* The same taking the clock whatever is in flight.
prepareB_alwaysClock(s) == [s EXCEPT !.nextStartTimeRef = s.clock]

\* Variant B, before the await of decodeAudioData: the clock is read and the
\* cursor is moved up to it.
prepareB(s) ==
  [s EXCEPT !.nextStartTimeRef =
              IF s.sourcesRef = {} THEN s.clock
              ELSE IF @ < s.clock THEN s.clock ELSE @]

\* Variant B, the end of onmessage: interrupted, transcriptions, turnComplete.
flushTurnB(s) ==
  LET uText == s.currentInputRef
      rText == s.currentOutputRef
      logged == addLog(addLog(s, "user", uText), "robot", rText)
  IN [logged EXCEPT !.liveInput = <<>>, !.liveOutput = <<>>,
                    !.lastFlush = [flushed |-> TRUE, expIn |-> s.recvIn,
                                   expOut |-> s.recvOut,
                                   gotIn |-> uText, gotOut |-> rText],
                    !.recvIn = <<>>, !.recvOut = <<>>]

tailB(s, j) ==
  LET cut == IF j.intr THEN interrupt(s) ELSE s
      heard == [cut EXCEPT !.liveInput = @ \o j.inT,
                           !.liveOutput = @ \o j.outT,
                           !.recvIn = @ \o j.inT,
                           !.recvOut = @ \o j.outT]
  IN IF j.tc THEN flushTurnB(heard) ELSE heard

RemoveAt(q, i) == [k \in 1..(Len(q) - 1) |-> IF k < i THEN q[k] ELSE q[k + 1]]

\* The continuation of onmessage (or of speakText) after a decode: job i of
\* the pending ones resumes with a decoded buffer of duration dur.
resume(s, i, dur) ==
  LET j == s.jobs[i]
      without == [s EXCEPT !.jobs = RemoveAt(@, i)]
  IN IF j.kind = "tts"
     THEN IF ~s.outputAudioCtxRef THEN without
          ELSE addLog(schedule(without, dur, j.stale, j.deaf),
                      "robot", <<"GREETING_TEXT">>)
     ELSE IF s.variant = "A"
     THEN IF ~s.outputAudioCtxRef THEN without
          ELSE LET played == schedule(s, j.rest[1], j.stale, j.deaf)
               IN IF Len(j.rest) > 1
                  THEN [played EXCEPT !.jobs[i].rest = Tail(@)]
                  ELSE LET over == [played EXCEPT !.jobs = RemoveAt(@, i)]
                       IN IF j.intr THEN interrupt(over) ELSE over
     ELSE LET played == IF s.outputAudioCtxRef
                        THEN schedule(s, j.rest[1], j.stale, j.deaf) ELSE s
          IN IF Len(j.rest) > 1
             THEN IF ~s.outputAudioCtxRef
                  THEN without
                  ELSE [prepareB(played) EXCEPT !.jobs[i].rest = Tail(@)]
             ELSE tailB([played EXCEPT !.jobs = RemoveAt(@, i)], j)

\* The await of decodeAudioData (or of the greeting request) of job i throws:
\* speakText and variant B catch it, variant B going on with the next part;
\* in variant A the exception leaves onmessage.
reject(s, i) ==
  LET j == s.jobs[i]
      without == [s EXCEPT !.jobs = RemoveAt(@, i)]
  IN IF j.kind = "tts" \/ s.variant = "A" THEN without
     ELSE IF Len(j.rest) > 1
     THEN IF ~s.outputAudioCtxRef THEN without
          ELSE [prepareB(s) EXCEPT !.jobs[i].rest = Tail(@)]
     ELSE tailB(without, j)

onended_alwaysListening(s, id) ==
  LET left == s.sourcesRef \ {id}
  IN [s EXCEPT !.sourcesRef = left,
               !.nodes = [n \in left |-> @[n]],
               !.robotState = "LISTENING", !.volume = 0]

\* source.onended, for a node that played to its end (id) or was stopped.
onended(s, id) ==
  LET left == s.sourcesRef \ {id}
      gone == [s EXCEPT !.sourcesRef = left,
                        !.nodes = [n \in left |-> @[n]]]
  IN IF left = {}
     THEN [gone EXCEPT !.robotState = "LISTENING", !.volume = 0]
     ELSE gone

(* ------------------------------ onmessage ----------------------------- *)

MoodToolA == "update_spark_mood"
MoodToolB == "update_sparky_mood"
FacesTool == "report_faces"

NoText == <<>>

Message(outT, inT, tc, calls, parts, intr) ==
  [outT |-> outT, inT |-> inT, tc |-> tc, calls |-> calls, parts |-> parts,
   intr |-> intr]

CallId(s, k) == <<s.nMsgs, k>>

RECURSIVE toolCalls(_, _, _)
\* for (const fc of message.toolCall.functionCalls): call k and the later ones.
toolCalls(s, calls, k) ==
  IF k > Len(calls) THEN s
  ELSE LET fc == calls[k]
           seen == [s EXCEPT !.handledCalls = @ \cup {CallId(s, k)}]
           answered == [seen EXCEPT !.toolResponses = Append(@, CallId(s, k))]
       IN toolCalls(
            IF s.variant = "A"
            THEN IF fc.name = MoodToolA
                 THEN [answered EXCEPT !.mood = fc.mood]
                 ELSE seen
            ELSE IF fc.name = MoodToolB
                 THEN [answered EXCEPT !.mood = fc.mood]
                 ELSE IF fc.name = FacesTool
                 THEN addLog([answered EXCEPT !.mood = "curious"],
                             "system", <<"VISUAL LINK">>)
                 ELSE seen,
            calls, k + 1)

NewJob(p, m) ==
  [kind |-> "msg", p |-> p, rest |-> m.parts, intr |-> m.intr, tc |-> m.tc,
   inT |-> m.inT, outT |-> m.outT, stale |-> FALSE, deaf |-> FALSE]

flushTurnA(s) ==
  LET logged == addLog(addLog(s, "user", s.liveInput), "robot", s.liveOutput)
  IN [logged EXCEPT !.liveInput = <<>>, !.liveOutput = <<>>,
                    !.lastFlush = [flushed |-> TRUE, expIn |-> s.recvIn,
                                   expOut |-> s.recvOut,
                                   gotIn |-> s.liveInput,
                                   gotOut |-> s.liveOutput],
                    !.recvIn = <<>>, !.recvOut = <<>>]

\* onmessage up to its first await (or to its end when the message carries
\* no audio part).
onmessage(s, p, m) ==
  LET got == [s EXCEPT !.recvIn = @ \o m.inT, !.recvOut = @ \o m.outT]
  IN IF s.variant = "A"
     THEN IF s.isDeafenedRef
          THEN [got EXCEPT !.handledCalls =
                  @ \cup {CallId(s, k) : k \in DOMAIN m.calls}]
          ELSE LET heard == IF m.outT # NoText
                            THEN [got EXCEPT !.liveOutput = @ \o m.outT]
                            ELSE [got EXCEPT !.liveInput = @ \o m.inT]
                   turned == IF m.tc THEN flushTurnA(heard) ELSE heard
                   called == toolCalls(turned, m.calls, 1)
               IN IF m.parts # <<>>
                  THEN IF ~s.outputAudioCtxRef THEN called
                       ELSE [called EXCEPT !.jobs = Append(@, NewJob(p, m))]
                  ELSE IF m.intr THEN interrupt(called) ELSE called
     ELSE LET called == toolCalls(s, m.calls, 1)
          IN IF m.parts # <<>>
             THEN IF ~s.outputAudioCtxRef THEN called
                  ELSE [prepareB(called) EXCEPT
                          !.jobs = Append(@, NewJob(p, m))]
             ELSE tailB(called, NewJob(p, m))

onaudioprocess_ignoresMute(s, p, rms) ==
  IF s.robotStateRef = "IDLE" THEN s
  ELSE [s EXCEPT !.volume = IF s.robotStateRef = "LISTENING" THEN rms ELSE @,
                 !.sent = Append(@, s.nFrames)]

\* The same with the newest frame put before the ones already sent.
onaudioprocess_newestFirst(s, p, rms) ==
  IF s.robotStateRef = "IDLE" THEN s
  ELSE IF s.variant = "A" /\ s.isMutedRef THEN [s EXCEPT !.volume = 0]
  ELSE [s EXCEPT !.volume = IF s.robotStateRef = "LISTENING" THEN rms ELSE @,
                 !.sent = <<s.nFrames>> \o @]

\* scriptProcessor.onaudioprocess for one captured frame with volume rms.
onaudioprocess(s, p, rms) ==
  IF s.robotStateRef = "IDLE" THEN s
  ELSE IF s.variant = "A" /\ s.isMutedRef THEN [s EXCEPT !.volume = 0]
  ELSE [s EXCEPT !.volume = IF s.robotStateRef = "LISTENING" THEN rms ELSE @,
                 !.sent = Append(@, s.nFrames)]

\* useEffect([isDeafened]) after the toggle (variant A).
deafenEffect(s) ==
  LET synced == [s EXCEPT !.isDeafenedRef = s.isDeafened]
  IN IF s.isDeafened
     THEN [StopSources(synced) EXCEPT
             !.robotState = "LISTENING", !.volume = 0, !.chainEnd = -1,
             !.jobs = [i \in DOMAIN @ |-> [@[i] EXCEPT !.deaf = TRUE]]]
     ELSE synced

(* ----------------------- session and user actions --------------------- *)

OnMessage(p, m) ==
  /\ procs[p].ch = "open"
  /\ nMsgs < MaxMsgs
  /\ Commit(Op(onmessage([Fresh EXCEPT !.nMsgs = @ + 1], p, m), "onmessage"))

DecodeResolves(i) ==
  /\ i \in DOMAIN jobs
  /\ \E dur \in Durations :
       /\ jobs[i].kind = "msg" => dur = jobs[i].rest[1]
       /\ Commit(Op(resume(Fresh, i, dur), "resume"))

DecodeRejects(i) ==
  /\ i \in DOMAIN jobs
  /\ Commit(Op(reject(Fresh, i), "reject"))

SourceEnds(id) ==
  /\ id \in sourcesRef
  /\ clock >= nodes[id].end
  /\ Commit(Op(onended(Fresh, id), "onended"))

StoppedSourceEnds ==
  /\ stoppedPending > 0
  /\ Commit(Op(onended([Fresh EXCEPT !.stoppedPending = @ - 1], 0),
               "onendedStopped"))

Tick ==
  /\ outputAudioCtxRef
  /\ clock < MaxClock
  /\ Commit(Op([Fresh EXCEPT !.clock = @ + 1], "other"))

AudioProcess(p) ==
  /\ procs[p].sampler
  /\ nFrames < MaxFrames
  /\ \E rms \in {0, 1} :
       Commit(Op(onaudioprocess([Fresh EXCEPT !.nFrames = @ + 1], p, rms),
                 "onaudioprocess"))

\* The mute and deafen buttons (variant A), enabled while isActive.
ToggleMute ==
  /\ variant = "A"
  /\ isActive
  /\ Commit(Op(RunEffectsOn([Fresh EXCEPT !.isMuted = ~@,
                                          !.isMutedRef = ~isMuted]),
               "toggleMute"))

ToggleDeafen ==
  /\ variant = "A"
  /\ isActive
  /\ Commit(Op(RunEffectsOn(deafenEffect([Fresh EXCEPT !.isDeafened = ~@])),
               "toggleDeafen"))

\* toggleCamera up to its await of getUserMedia({video}), or to its end when
\* the camera is on.
toggleCamera(s) ==
  IF ~s.isCameraOn THEN [s EXCEPT !.camPending = @ + 1]
  ELSE [(IF s.variant = "A"
         THEN addLog(s, "system", <<"OPTICAL SENSORS: OFFLINE.">>) ELSE s)
        EXCEPT !.camStreams = IF s.srcObject THEN @ - 1 ELSE @,
               !.srcObject = FALSE,
               !.timers = IF s.frameIntervalRef THEN @ - 1 ELSE @,
               !.frameIntervalRef = FALSE,
               !.isCameraOn = FALSE]

\* The continuation of toggleCamera after getUserMedia({video}).
AfterCamera(s, ok, err) ==
  LET back == [s EXCEPT !.camPending = @ - 1]
  IN IF ok
     THEN [(IF s.variant = "A"
            THEN addLog(back, "system", <<"OPTICAL SENSORS: ONLINE.">>)
            ELSE back)
           EXCEPT !.camStreams = @ + 1,
                  !.srcObject = TRUE,
                  !.isCameraOn = TRUE,
                  !.timers = @ + 1,
                  !.frameIntervalRef = TRUE]
     ELSE IF s.variant = "A" THEN handleError(back, err)
          ELSE [back EXCEPT !.errorDetail = "warning"]

\* The camera button, enabled while isActive; one request is pending at a
\* time.
ToggleCamera ==
  /\ isActive
  /\ camPending = 0
  /\ Commit(Op(RunEffectsOn(toggleCamera(Fresh)), "other"))

CameraResolves(outcomes) ==
  /\ camPending > 0
  /\ \E ok \in outcomes : \E err \in GumErrors :
       /\ ok => err = "other"
       /\ Commit(Op(AfterCamera(Fresh, ok, err), "other"))

\* Whether the promise of startSession invocation p has resolved.
Resolved(s, p) == s.procs[p].ch \in {"open", "closed"}

\* The camera button pressed again while a request of toggleCamera still
\* awaits getUserMedia({video}).
ToggleCameraPending ==
  /\ isActive
  /\ camPending > 0
  /\ isCameraOn \/ timers + camPending < MaxPending
  /\ Commit(Op(RunEffectsOn(toggleCamera(Fresh)), "other"))

\* The callback of a frame-capture interval, through toBlob and
\* blobToBase64: the frame goes through sessionPromiseRef, at once when the
\* promise has resolved, when it resolves otherwise.
captureFrame(s) ==
  LET p == s.sessionPromiseRef
  IN IF p = NoProc THEN s
     ELSE IF Resolved(s, p) THEN [s EXCEPT !.imgSent = @ + 1]
     ELSE IF s.procs[p].ch = "connecting"
     THEN [s EXCEPT !.procs[p].images = @ + 1]
     ELSE s

\* One of the live interval timers fires.
FrameTick ==
  /\ timers > 0
  /\ nImages < MaxImages
  /\ Commit(Op(captureFrame([Fresh EXCEPT !.nImages = @ + 1]), "frameTick"))

FaceText == <<"PERCEPTION: Human detected">>
GestureText(gesture) == <<"VISUAL CONTEXT", gesture>>

\* handleFaceDetected of variant A: the text goes through sessionPromiseRef,
\* at once when the promise has resolved, when it resolves otherwise.
handleFaceDetected(s, boxes) ==
  IF boxes > 0 /\ s.mood # "curious" /\ s.isActive
  THEN LET curious == [s EXCEPT !.mood = "curious"]
           p == s.sessionPromiseRef
       IN IF p = NoProc THEN curious
          ELSE IF Resolved(s, p)
          THEN [curious EXCEPT !.textSent = Append(@, FaceText)]
          ELSE IF s.procs[p].ch = "connecting"
          THEN [curious EXCEPT !.procs[p].texts = Append(@, FaceText)]
          ELSE curious
  ELSE s

\* The labels the avatar's recognition delivers, and one it does not.
Gestures == {"wave", "thumbs_up", "peace", "fist"}

GestureMood(gesture) ==
  IF gesture = "wave" THEN "waving"
  ELSE IF gesture = "thumbs_up" THEN "thumbs_up"
  ELSE IF gesture = "peace" THEN "excited"
  ELSE "neutral"

\* handleGestureDetected of variant A.
handleGestureDetected(s, gesture) ==
  LET logged == addLog(s, "system", <<"GESTURE RECOGNIZED">>)
      moved == [logged EXCEPT !.mood = GestureMood(gesture)]
  IN IF s.sessionRef # NoProc /\ s.isActive
     THEN [moved EXCEPT !.textSent = Append(@, GestureText(gesture))]
     ELSE moved

\* The avatar's sensing loops run while the camera is on and call the
\* handlers of variant A; a face event carries at least one box.
FaceDetected ==
  /\ variant = "A"
  /\ isCameraOn
  /\ nEvents < MaxEvents
  /\ \E boxes \in {1, 2} :
       Commit(Op(handleFaceDetected([Fresh EXCEPT !.nEvents = @ + 1], boxes),
                 "faceDetected"))

GestureDetected(gesture) ==
  /\ variant = "A"
  /\ isCameraOn
  /\ nEvents < MaxEvents
  /\ Commit(Op(handleGestureDetected([Fresh EXCEPT !.nEvents = @ + 1],
                                     gesture), "gestureDetected"))

\* The Authorize Connection button of variant B: handleInitialization().
Authorize ==
  /\ variant = "B"
  /\ ~isInitialized /\ robotState = "IDLE" /\ authPc = "idle"
  /\ Commit(Op(RunEffectsOn([Fresh EXCEPT !.robotState = "CONNECTING",
                                          !.errorDetail = "none",
                                          !.authPc = "pending"]),
               "other"))

AuthorizeResolves ==
  /\ authPc = "pending"
  /\ \E ok \in BOOLEAN :
       Commit(Op(IF ok
                 THEN [Fresh EXCEPT !.isInitialized = TRUE,
                                    !.robotState = "IDLE",
                                    !.authPc = "idle"]
                 ELSE [Fresh EXCEPT !.errorDetail = "critical",
                                    !.robotState = "ERROR",
                                    !.authPc = "idle"],
                 "other"))

Lifecycle ==
  \/ Wake \/ ReSync \/ Shutdown \/ RunEffects \/ Authorize \/ AuthorizeResolves
  \/ \E p \in Procs : \/ InitResolves(p, BOOLEAN) \/ MicResolves(p, BOOLEAN)
                      \/ ConnectResolves(p, BOOLEAN) \/ RetryTimer(p)
                      \/ OnClose(p) \/ OnError(p)

\* One activation in which the authorization, the microphone and the
\* connection succeed: the user wakes the robot once.
WakeOnce == nStarts = 0 /\ Wake

OneSession ==
  \/ WakeOnce \/ Shutdown \/ RunEffects
  \/ \E p \in Procs : \/ InitResolves(p, {TRUE}) \/ MicResolves(p, {TRUE})
                      \/ ConnectResolves(p, {TRUE}) \/ OnClose(p)

\* The same up to the shutdown by the user: the channel stays open.
OpenSession ==
  \/ WakeOnce \/ Shutdown \/ RunEffects
  \/ \E p \in Procs : \/ InitResolves(p, {TRUE}) \/ MicResolves(p, {TRUE})
                      \/ ConnectResolves(p, {TRUE})

\* Variant B is authorized by its own button before the wake.
Authorization == Authorize \/ AuthorizeResolves

Decodes == \E i \in 1..MaxMsgs : DecodeResolves(i)

Playback ==
  \/ Tick \/ StoppedSourceEnds \/ Decodes
  \/ \E id \in 1..(2 * MaxMsgs + 1) : SourceEnds(id)

Call(name, m) == [name |-> name, mood |-> m]

AudioMsgs ==
  {Message(NoText, NoText, FALSE, <<>>, <<1>>, FALSE),
   Message(NoText, NoText, FALSE, <<>>, <<2, 1>>, FALSE),
   Message(NoText, NoText, FALSE, <<>>, <<1>>, TRUE),
   Message(NoText, NoText, FALSE, <<>>, <<>>, TRUE)}

\* The tool names the two variants declare.
ToolNames == {MoodToolA, MoodToolB, FacesTool}

ToolMsgs ==
  {Message(NoText, NoText, FALSE, <<Call(n, "happy")>>, <<>>, FALSE) :
     n \in ToolNames}
  \cup {Message(NoText, NoText, FALSE,
                <<Call(MoodToolA, "happy"), Call(MoodToolB, "sad")>>, <<>>,
                FALSE)}

TextMsgs ==
  {Message(<<"Hello">>, NoText, FALSE, <<>>, <<>>, FALSE),
   Message(<<" there">>, NoText, TRUE, <<>>, <<>>, FALSE),
   Message(NoText, <<"Hello">>, FALSE, <<>>, <<>>, FALSE),
   Message(<<"Hello">>, <<" there">>, FALSE, <<>>, <<>>, FALSE),
   Message(NoText, NoText, TRUE, <<>>, <<>>, FALSE),
   Message(NoText, NoText, FALSE, <<>>, <<>>, TRUE)}

\* A message that moves the mood, the output text and the playback queue at
\* once, and one that carries input text.
RichMsgs ==
  {Message(<<"Hello">>, NoText, FALSE,
           <<Call(MoodToolA, "happy"), Call(MoodToolB, "happy")>>, <<1>>,
           FALSE),
   Message(NoText, <<"Hello">>, FALSE, <<>>, <<>>, FALSE)}

\* type RobotMood.
RobotMoods ==
  {"neutral", "happy", "concerned", "curious", "excited", "calm", "sad",
   "alert", "waving", "surprised", "thumbs_up", "facepalm", "shrug",
   "nervous"}

\* What fc.args.mood can be: a tag of the declared enum, a string outside
\* it, and undefined when the arguments carry no mood.
MoodArgs == {"happy", "furious", "undefined"}

MoodMsgs ==
  {Message(NoText, NoText, FALSE, <<Call(n, m)>>, <<>>, FALSE) :
     n \in {MoodToolA, MoodToolB}, m \in MoodArgs}
  \cup {Message(NoText, NoText, FALSE, <<Call(FacesTool, "happy")>>, <<>>,
                FALSE)}

\* The n-th message of a session carrying one audio part whose decoded
\* buffer lasts n + 2: longer than any greeting, and telling which message a
\* source node came from.
NumberedMsg(n) == Message(NoText, NoText, FALSE, <<>>, <<n + 2>>, FALSE)

MsgOfNode(node) == (node.end - node.at) - 2

DeliverNumbered == \E p \in Procs : OnMessage(p, NumberedMsg(nMsgs + 1))

\* The decode of a numbered message, or the greeting request, resolves.
DecodeNumbered(i) ==
  /\ i \in DOMAIN jobs
  /\ \E dur \in Durations \cup {jobs[i].rest[k] : k \in DOMAIN jobs[i].rest} :
       /\ jobs[i].kind = "msg" => dur = jobs[i].rest[1]
       /\ jobs[i].kind = "tts" => dur \in Durations
       /\ Commit(Op(resume(Fresh, i, dur), "resume"))

DecodesNumbered == \E i \in 1..(MaxMsgs + 1) : DecodeNumbered(i)

Deliver(M) == \E p \in Procs : \E m \in M : OnMessage(p, m)

Sampler == \E p \in Procs : AudioProcess(p)

InitA == Init /\ variant = "A" /\ apiKey
InitB == Init /\ variant = "B" /\ apiKey
InitAB == Init /\ apiKey

Camera == ToggleCamera \/ CameraResolves({TRUE})

Perception == FaceDetected \/ \E g \in Gestures : GestureDetected(g)

\* The session lifecycle of both variants.
Next == Lifecycle
Spec == Init /\ [][Next]_vars

\* One session of variant A with inbound audio.
NextPlayA == OneSession \/ Playback \/ Deliver(AudioMsgs)
SpecPlayA == InitA /\ [][NextPlayA]_vars

\* The same with the deafen button.
NextDeafA == NextPlayA \/ ToggleDeafen
SpecDeafA == InitA /\ [][NextDeafA]_vars

\* One session of either variant with tool calls.
NextTools == OneSession \/ Authorization \/ Deliver(ToolMsgs) \/ ToggleDeafen
SpecTools == InitAB /\ [][NextTools]_vars

\* One session of variant A with transcriptions.
NextTextA == OneSession \/ Deliver(TextMsgs)
SpecTextA == InitA /\ [][NextTextA]_vars

\* One session of variant A with the microphone sampler and the mute button.
NextMicA == OneSession \/ Sampler \/ ToggleMute
SpecMicA == InitA /\ [][NextMicA]_vars

\* The user sets the mute, deafen and camera switches before the first
\* message and the first microphone frame.
Switches ==
  /\ nMsgs = 0 /\ nFrames = 0
  /\ \/ ToggleMute \/ ToggleDeafen \/ ToggleCamera \/ CameraResolves({TRUE})

\* One session of either variant in which everything a shutdown resets has
\* been moved.
NextShutdown ==
  \/ OpenSession \/ Authorization \/ Deliver(RichMsgs) \/ Decodes \/ Sampler
  \/ Switches
SpecShutdown == InitAB /\ [][NextShutdown]_vars

\* One activation of variant B whose microphone and connection requests may
\* fail, with the shutdown button.
NextRetryB ==
  \/ Authorization \/ WakeOnce \/ Shutdown \/ RunEffects
  \/ \E p \in Procs : \/ InitResolves(p, BOOLEAN) \/ MicResolves(p, BOOLEAN)
                      \/ ConnectResolves(p, BOOLEAN) \/ RetryTimer(p)
SpecRetryB == InitB /\ [][NextRetryB]_vars

\* Wakes with and without an API key; every await succeeds.
NextKey ==
  \/ Wake \/ ReSync \/ Shutdown \/ RunEffects \/ Authorization
  \/ \E p \in Procs : \/ InitResolves(p, {TRUE}) \/ MicResolves(p, {TRUE})
                      \/ ConnectResolves(p, {TRUE})
SpecKey == Init /\ [][NextKey]_vars

\* One session of variant A with inbound audio, while the channel is open.
NextLiveA == OpenSession \/ Playback \/ Deliver(AudioMsgs)
SpecLiveA == InitA /\ [][NextLiveA]_vars

\* One session of variant A with the camera and the avatar's perception.
NextPerceptA == OpenSession \/ Camera \/ Perception
SpecPerceptA == InitA /\ [][NextPerceptA]_vars

\* One session of either variant with everything that moves the mood: the
\* tool calls of the service, the perception events and the shutdown.
NextMood ==
  \/ OpenSession \/ Authorization \/ Deliver(MoodMsgs) \/ Camera \/ Perception
SpecMood == InitAB /\ [][NextMood]_vars

\* One session of either variant with the microphone sampler running, up to
\* the close of the channel and the shutdown.
NextSampler == OneSession \/ Authorization \/ Sampler \/ ToggleMute
SpecSampler == InitAB /\ [][NextSampler]_vars

\* One session of either variant whose messages carry one fragment each, the
\* decodes resolving in any order.
NextOrder == OpenSession \/ Authorization \/ DeliverNumbered \/ DecodesNumbered
SpecOrder == InitAB /\ [][NextOrder]_vars

\* One session of either variant with inbound audio, shut down at any point
\* of its establishment or of its playback.
NextTornDown == OneSession \/ Authorization \/ Playback \/ Deliver(AudioMsgs)
SpecTornDown == InitAB /\ [][NextTornDown]_vars

\* The user wakes the robot while no startSession is under way.
WakeAgain == (\A p \in Procs : procs[p].pc \in {"unused", "done"}) /\ Wake

\* The user shuts down an established session: its channel is closed.
ShutdownSession == sessionRef # NoProc /\ Shutdown

\* Sessions of either variant with inbound audio, one after the other: the
\* user shuts the robot down and wakes it again.
NextRewake ==
  \/ WakeAgain \/ ShutdownSession \/ RunEffects \/ Authorization
  \/ \E p \in Procs : \/ InitResolves(p, {TRUE}) \/ MicResolves(p, {TRUE})
                      \/ ConnectResolves(p, {TRUE})
  \/ Deliver(AudioMsgs) \/ Decodes
SpecRewake == InitAB /\ [][NextRewake]_vars

\* One session of variant B with inbound audio, while the channel is open.
NextLiveB == OpenSession \/ Authorization \/ Playback \/ Deliver(AudioMsgs)
SpecLiveB == InitB /\ [][NextLiveB]_vars

\* One session of variant B with transcriptions.
NextTextB == OneSession \/ Authorization \/ Deliver(TextMsgs)
SpecTextB == InitB /\ [][NextTextB]_vars

\* One activation of variant A whose awaits may fail each time, without a
\* shutdown: every pending promise settles and every pending timer fires.
NextActivateA ==
  \/ WakeOnce \/ RunEffects
  \/ \E p \in Procs : \/ InitResolves(p, BOOLEAN) \/ MicResolves(p, BOOLEAN)
                      \/ ConnectResolves(p, BOOLEAN) \/ RetryTimer(p)
SpecActivateA ==
  /\ InitA /\ [][NextActivateA]_vars
  /\ WF_vars(RunEffects)
  /\ \A p \in Procs : /\ WF_vars(InitResolves(p, BOOLEAN))
                       /\ WF_vars(MicResolves(p, BOOLEAN))
                       /\ WF_vars(ConnectResolves(p, BOOLEAN))
                       /\ WF_vars(RetryTimer(p))

\* One activation of either variant whose awaits may fail each time.
SpecRetry == InitAB /\ [][NextRetryB]_vars

\* One session of either variant with everything that touches the cursor
\* or the in-flight set: inbound audio and interruptions, the clock, natural
\* completions, the deafen button and the shutdown of the session.
NextCursor ==
  \/ WakeOnce \/ ShutdownSession \/ Authorization
  \/ \E p \in Procs : \/ InitResolves(p, {TRUE}) \/ MicResolves(p, {TRUE})
                      \/ ConnectResolves(p, {TRUE})
  \/ Tick \/ Decodes \/ \E id \in 1..(2 * MaxMsgs + 1) : SourceEnds(id)
  \/ Deliver(AudioMsgs) \/ ToggleDeafen
SpecCursor == InitAB /\ [][NextCursor]_vars

DecodeFailures == \E i \in 1..(MaxMsgs + 1) : DecodeRejects(i)

\* One open session of variant A with inbound audio whose decodes may fail.
NextDecodeFailA ==
  OpenSession \/ Playback \/ Deliver(AudioMsgs) \/ DecodeFailures
SpecDecodeFailA == InitA /\ [][NextDecodeFailA]_vars

\* One session of either variant with the camera: the button pressed at any
\* time, also while a request is pending, requests that fail, the interval
\* timers and the shutdown.
NextCamera ==
  \/ OneSession \/ Authorization \/ ToggleCamera \/ ToggleCameraPending
  \/ CameraResolves(BOOLEAN) \/ FrameTick
SpecCamera == InitAB /\ [][NextCamera]_vars

\* The end of a turn with one audio fragment, and an interruption.
TurnMsgs ==
  {Message(NoText, NoText, TRUE, <<>>, <<1>>, FALSE),
   Message(NoText, NoText, FALSE, <<>>, <<>>, TRUE)}

\* The deafen button pressed before the first message.
DeafenEarly == nMsgs = 0 /\ ToggleDeafen

\* One activation of either variant with everything that sets robotState:
\* the wake and the shutdown, an authorization that fails, the channel's
\* close and error events, inbound turns and interruptions, natural
\* completions, the output clock and the deafen button.
NextStates ==
  \/ WakeOnce \/ Shutdown \/ RunEffects \/ Authorization
  \/ \E p \in Procs : \/ InitResolves(p, BOOLEAN) \/ MicResolves(p, {TRUE})
                      \/ ConnectResolves(p, {TRUE})
                      \/ OnClose(p) \/ OnError(p)
  \/ Deliver(TurnMsgs) \/ Decodes \/ Tick
  \/ \E id \in 1..(2 * MaxMsgs + 1) : SourceEnds(id)
  \/ DeafenEarly
SpecStates == InitAB /\ [][NextStates]_vars

\* stopSession() called again right after a shutdown: the cleanup of the
\* unmount effect and handleError call it whatever isActive is.
StopAgain ==
  /\ variant = "A"
  /\ lastOp = "stopSession"
  /\ Commit(Op(RunEffectsOn([stopSession(Fresh) EXCEPT
                               !.shutdownSinceWake = TRUE]), "stopSession"))

\* One session of variant A in which everything a shutdown resets has been
\* moved, shut down once and then once more.
NextStopTwiceA ==
  \/ OpenSession \/ Deliver(RichMsgs) \/ Decodes \/ Sampler \/ Switches
  \/ StopAgain
SpecStopTwiceA == InitA /\ [][NextStopTwiceA]_vars

(* ------------------------------ properties ---------------------------- *)

Overlap(a, b) == a.at < b.end /\ b.at < a.end

\* C1 (variant A): a fragment scheduled after another one of the same
\* session, with no interruption, deafen or shutdown in between, starts at
\* the later of its predecessor's end and the output clock at that moment,
\* the cursor then is that start plus the fragment's duration, and no two
\* fragments in flight overlap.
C1_GaplessScheduling ==
  /\ lastSched.prev >= 0 =>
       /\ lastSched.start = Max(lastSched.prev, lastSched.clock)
       /\ lastOp # "interrupted" =>
            nextStartTimeRef = lastSched.start + lastSched.dur
  /\ \A a \in sourcesRef : \A b \in sourcesRef \ {a} :
       ~Overlap(nodes[a], nodes[b])

\* A fragment of duration 1 was scheduled after its predecessor had played
\* to its end: the clock had passed the predecessor's end.
C1_Witness ==
  /\ lastSched.prev >= 0
  /\ lastSched.clock > lastSched.prev
  /\ lastSched.dur = 1

\* C2 (variant A): after an interrupted event is handled the in-flight set is
\* empty, the cursor is 0 and the state is LISTENING, and no fragment received
\* before that event is in flight afterwards.
C2_InterruptionDiscardsAll ==
  /\ lastOp = "interrupted" =>
       sourcesRef = {} /\ nextStartTimeRef = 0 /\ robotState = "LISTENING"
  /\ \A id \in sourcesRef : ~nodes[id].stale

\* C3 (variant A): a non-empty in-flight set implies the state SPEAKING.
C3_InFlightImpliesSpeaking ==
  sourcesRef # {} => robotState = "SPEAKING"

Occurrences(q, x) == Cardinality({i \in DOMAIN q : q[i] = x})

\* C4 (each variant): every function call of a received toolCall has exactly
\* one response sent for it.
C4_EveryCallAnsweredOnce ==
  \A c \in handledCalls : Occurrences(toolResponses, c) = 1

Entries(type, text) ==
  IF text = <<>> THEN <<>> ELSE <<[type |-> type, text |-> text]>>

\* C5 (variant A): when a turn completes, the log ends with one user entry
\* and one robot entry holding the concatenation, in arrival order, of the
\* partials received since the previous turn (none for an empty
\* concatenation), and both accumulators are empty.
C5_TurnKeepsAllPartials ==
  lastFlush.flushed =>
    LET expected == Entries("user", lastFlush.expIn)
                    \o Entries("robot", lastFlush.expOut)
        n == Len(expected)
    IN /\ Len(history) >= n
       /\ SubSeq(history, Len(history) - n + 1, Len(history)) = expected
       /\ liveInput = <<>> /\ liveOutput = <<>>

\* C6 (variant A): turning deafen on empties the in-flight set and gives the
\* state LISTENING, and no fragment is in flight while deafened.
C6_DeafenSilences ==
  /\ (lastOp = "toggleDeafen" /\ isDeafened) =>
       sourcesRef = {} /\ robotState = "LISTENING"
  /\ isDeafened => sourcesRef = {}

\* C7 (variant A): the mute button leaves the sampler wired; a frame captured
\* while muted is not sent and, in a session that is not IDLE, reports the
\* volume 0; a frame captured while not muted in such a session is sent.
C7_MuteStopsSending ==
  [][/\ lastOp' = "onaudioprocess" =>
          /\ isMuted => /\ sent' = sent
                        /\ robotStateRef # "IDLE" => volume' = 0
          /\ (~isMuted /\ robotStateRef # "IDLE") =>
               sent' = Append(sent, nFrames')
     /\ lastOp' = "toggleMute" => procs' = procs]_vars

\* The first frame was captured while muted, the second one after the unmute
\* and it was sent.
C7_Witness ==
  /\ lastOp = "onaudioprocess"
  /\ ~isMuted
  /\ nFrames = 2
  /\ sent = <<0, 2>>

\* C8 (each variant): at most one channel is connecting or open, and at most
\* one microphone stream is live.
C8_AtMostOneSession ==
  /\ Cardinality({p \in Procs : procs[p].ch \in {"connecting", "open"}}) <= 1
  /\ streams <= 1

\* C9 (each variant): a shutdown leaves the state IDLE, isActive and
\* isCameraOn false, the mood neutral, the volume 0, the accumulators and the
\* in-flight set empty, the cursor 0 and the session references null, and it
\* leaves isMuted, isDeafened and isInitialized as they were.
C9_ShutdownResets ==
  [][lastOp' = "stopSession" =>
       /\ robotState' = "IDLE" /\ ~isActive' /\ ~isCameraOn'
       /\ mood' = "neutral" /\ volume' = 0
       /\ liveInput' = <<>> /\ liveOutput' = <<>>
       /\ currentInputRef' = <<>> /\ currentOutputRef' = <<>>
       /\ sourcesRef' = {} /\ nextStartTimeRef' = 0
       /\ sessionRef' = NoProc /\ sessionPromiseRef' = NoProc
       /\ isMuted' = isMuted /\ isDeafened' = isDeafened
       /\ isInitialized' = isInitialized]_vars

\* A shutdown stopped fragments in flight, after a mood call was answered
\* and a captured microphone frame was sent.
C9_Witness ==
  /\ lastOp = "stopSession"
  /\ stoppedPending > 0
  /\ toolResponses # <<>>
  /\ \E i \in DOMAIN sent : sent[i] > 0

\* C10 (each variant): from a shutdown until the next start by the user, a
\* pending retry timer starts no connection attempt.
C10_NoReconnectAfterShutdown ==
  [][(shutdownSinceWake /\ shutdownSinceWake') =>
       \A p \in Procs :
         procs[p].pc = "timer" => procs'[p].pc \notin {"init", "mic", "connect"}]_vars

\* C11 (variant B): one wake makes at most MAX_RETRIES + 1 attempts; the
\* failure of the last one leaves ERROR with a critical descriptor and no
\* retry timer, exactly MAX_RETRIES + 1 attempts were made then, and no
\* attempt follows.
C11_RetryBoundB ==
  /\ [](\A p \in Procs :
          /\ procs[p].attempts <= MAX_RETRIES + 1
          /\ procs[p].fails = MAX_RETRIES + 1 =>
               procs[p].attempts = MAX_RETRIES + 1 /\ procs[p].pc = "done")
  /\ [][\A p \in Procs :
          /\ (procs[p].fails = MAX_RETRIES /\ procs'[p].fails = MAX_RETRIES + 1)
               => robotState' = "ERROR" /\ errorDetail' = "critical"
          /\ procs[p].fails = MAX_RETRIES + 1 => procs'[p] = procs[p]]_vars

\* The fourth attempt of a wake has failed.
C11_Witness ==
  \E p \in Procs :
    /\ procs[p].fails = MAX_RETRIES + 1
    /\ procs[p].retry = MAX_RETRIES
    /\ robotState = "ERROR"

\* C12 (each variant): after a channel closed with a code other than 1000
\* while the session was active, a new connection attempt is pending or
\* scheduled.
C12_AbnormalCloseRetried ==
  lastOp = "oncloseAbnormal" =>
    \E p \in Procs : procs[p].pc \in {"init", "mic", "connect", "timer"}

\* C13 (each variant): the state ERROR is left only by a step of the user
\* (wake, Re-Sync or the power button).
C13_ErrorIsTerminal ==
  [][robotState = "ERROR" =>
       robotState' = "ERROR" \/ lastOp' \in {"wake", "stopSession"}]_vars

\* C14 (each variant): when getUserMedia rejects inside startSession the
\* activation ends in ERROR with an error descriptor, and no retry timer is
\* set.
C14_MicFailureIsFatal ==
  [][\A p \in Procs :
       (procs[p].pc = "mic" /\ procs'[p].pc \notin {"mic", "connect"}) =>
         /\ procs'[p].pc = "done"
         /\ robotState' = "ERROR"
         /\ errorDetail' # "none"]_vars

\* C15 (each variant): without an API key a wake leaves ERROR with a critical
\* descriptor, and no invocation of startSession ever enters its try block,
\* asks for the microphone, connects or sets a timer.
C15_MissingKeyIsFatal ==
  /\ [](~apiKey =>
          /\ streams = 0
          /\ \A p \in Procs :
               /\ procs[p].attempts = 0
               /\ procs[p].ch = "none"
               /\ procs[p].pc \in {"unused", "done"})
  /\ [][(~apiKey /\ lastOp' = "wake") =>
          robotState' = "ERROR" /\ errorDetail' = "critical"]_vars

\* A wake without an API key has ended.
C15_Witness ==
  /\ ~apiKey
  /\ lastOp = "wake"
  /\ nStarts > 0
  /\ procs[nStarts].pc = "done"

\* C16 (variant A): a fragment that ends naturally leaves the in-flight set;
\* when the set is empty then, the state is LISTENING and the volume 0; when
\* it is not, the state is unchanged.
C16_NaturalCompletion ==
  [][lastOp' = "onended" =>
       \E id \in sourcesRef :
         /\ clock >= nodes[id].end
         /\ sourcesRef' = sourcesRef \ {id}
         /\ sourcesRef' = {} => robotState' = "LISTENING" /\ volume' = 0
         /\ sourcesRef' # {} => robotState' = robotState]_vars

\* A fragment ended naturally while another one was in flight.
C16_Witness ==
  /\ lastOp = "onended"
  /\ sourcesRef # {}
  /\ robotState = "SPEAKING"

\* C17: in variant A every face event (with at least one box) and every
\* gesture event delivered while the session is active and its channel is
\* open submits exactly one text event, and a face event leaves the mood
\* curious, a gesture event leaves it in its gesture's mood.
C17_PerceptionEventsReported ==
  [][(/\ lastOp' \in {"faceDetected", "gestureDetected"}
      /\ isActive /\ sessionRef # NoProc /\ procs[sessionRef].ch = "open")
     => /\ Len(textSent') = Len(textSent) + 1
        /\ lastOp' = "faceDetected" => mood' = "curious"
        /\ lastOp' = "gestureDetected"
             => mood' = GestureMood(textSent'[Len(textSent')][2])]_vars

\* C18: in each variant the mood is, in every reachable state, one of the 14
\* tags of RobotMood, whatever the mood argument of a tool call and whatever
\* the label of a gesture event.
C18_MoodInRobotMood == mood \in RobotMoods

\* C19: in each variant a frame captured while the interaction state is IDLE
\* causes no audio send.
C19_NoSendWhileIdle ==
  [][(lastOp' = "onaudioprocess" /\ robotState = "IDLE") => sent' = sent]_vars

\* C20: in each variant the audio sends of a session are in capture order and
\* no frame is sent twice: the frame numbers in the order of their sends
\* (frame 0 is variant A's chunk of silence, captured frames count from 1)
\* are strictly increasing, and no frame is sent that was not captured.
C20_SentInCaptureOrder ==
  /\ \A i, j \in DOMAIN sent : i < j => sent[i] < sent[j]
  /\ \A i \in DOMAIN sent : sent[i] <= nFrames

\* Two captured frames were sent.
C20_Witness ==
  /\ lastOp = "onaudioprocess"
  /\ Cardinality({i \in DOMAIN sent : sent[i] > 0}) >= 2

\* C21: in each variant fragments are scheduled in the order their messages
\* arrived: of two source nodes, the one of the earlier message has the
\* earlier start time.
C21_ScheduledInArrivalOrder ==
  \A a, b \in DOMAIN nodes :
    (0 < MsgOfNode(nodes[a]) /\ MsgOfNode(nodes[a]) < MsgOfNode(nodes[b]))
      => nodes[a].start < nodes[b].start

\* C22: in each variant, after stopSession has run and until the next wake,
\* no step changes robotState, the in-flight set or nextStartTime.
C22_TornDownCallbacksAreNoOps ==
  [][(shutdownSinceWake /\ lastOp' \notin {"wake", "stopSession"})
     => /\ robotState' = robotState
        /\ sourcesRef' = sourcesRef
        /\ nextStartTimeRef' = nextStartTimeRef]_vars

\* C23: in each variant a fragment whose decode (or greeting request) was
\* pending over a shutdown and a new wake is discarded: when the robot was
\* woken again after a shutdown and every pending decode belongs to a session
\* before the latest, a decode that resolves adds nothing to the in-flight
\* set and leaves the cursor.
C23_FragmentBelongsToItsSession ==
  [][(/\ lastOp' = "resume"
      /\ shutdownSinceWake' = FALSE
      /\ \A k \in DOMAIN jobs : jobs[k].p < nStarts)
     => /\ sourcesRef' = sourcesRef
        /\ nextStartTimeRef' = nextStartTimeRef]_vars

\* C24 (variant B): no two fragments in flight overlap in their playback
\* intervals, a fragment started in the past playing from the current clock.
\* An interruption or a shutdown empties the in-flight set, so two fragments
\* in flight were scheduled in one session with no interruption between.
C24_NoOverlapB ==
  \A a \in sourcesRef : \A b \in sourcesRef \ {a} :
    ~Overlap(nodes[a], nodes[b])

\* C25 (variant B): when a turn completes after the partial output
\* transcripts "Hello" and " there" (and no input transcript), exactly one
\* entry is appended to the log, the robot entry "Hello there", and the
\* accumulators are empty, whenever the effect that copies the accumulators
\* into their refs runs.
C25_TurnFlushB ==
  [][(/\ lastFlush'.flushed
      /\ lastFlush'.expOut = <<"Hello", " there">>
      /\ lastFlush'.expIn = <<>>)
     => /\ history' = LastEntries(Append(history,
                         [type |-> "robot", text |-> <<"Hello", " there">>]))
        /\ liveInput' = <<>> /\ liveOutput' = <<>>]_vars

\* C26 (variant A): after a wake, without a shutdown and with every promise
\* settling and every timer firing, the state CONNECTING leads to LISTENING
\* or to ERROR.
C26_ActivationSettles ==
  (robotState = "CONNECTING") ~> (robotState \in {"LISTENING", "ERROR"})

\* C27: in each variant at most one microphone stream is live at any time
\* of an activation and of its retries, and while a sampler is wired the
\* only live stream is its own.
C27_RetriesLeakNoStream ==
  /\ streams <= 1
  /\ (\E p \in Procs : procs[p].sampler) => streams = 1

\* C28: in each variant a step either leaves the cursor nextStartTime where
\* it was or raises it, or sets it to 0 and is a startSession, the handling
\* of an interrupted event or a stopSession; a natural completion and a
\* deafen toggle leave it as it was.
C28_CursorMonotone ==
  [][/\ \/ nextStartTimeRef' >= nextStartTimeRef
        \/ /\ nextStartTimeRef' = 0
           /\ lastOp' \in {"wake", "interrupted", "stopSession"}
     /\ lastOp' \in {"onended", "toggleDeafen"}
          => nextStartTimeRef' = nextStartTimeRef]_vars

\* Variant B's adjustment on an empty queue raised the cursor above the end
\* of the last fragment scheduled: a message with audio arrived after the
\* fragments before it had played to their end.
C28_Witness ==
  /\ variant = "B" /\ lastOp = "onmessage"
  /\ sourcesRef = {} /\ jobs # <<>>
  /\ chainEnd >= 0 /\ nextStartTimeRef > chainEnd

\* C29 (variant A): every onerror event of the channel sets the error
\* descriptor and moves the state to ERROR.
C29_ChannelErrorReachesState ==
  [][(variant = "A" /\ nErrs' = nErrs + 1)
     => errorDetail' # "none" /\ robotState' = "ERROR"]_vars

\* C30 (variant A): a failing decode drops its part only.  When every
\* pending decode is of a message with another audio part to come, that
\* message still awaits a decode afterwards; and when every pending decode is
\* the last part of a message carrying interrupted, the interruption is
\* applied.
C30_DecodeFailureIsLocal ==
  [][(variant = "A" /\ lastOp' = "reject"
      /\ \A k \in DOMAIN jobs : jobs[k].kind = "msg")
     => /\ (\A k \in DOMAIN jobs : Len(jobs[k].rest) > 1)
             => Len(jobs') = Len(jobs)
        /\ (\A k \in DOMAIN jobs : Len(jobs[k].rest) = 1 /\ jobs[k].intr)
             => /\ sourcesRef' = {} /\ nextStartTimeRef' = 0
                /\ robotState' = "LISTENING"]_vars

\* C31: at most one frame-capture interval timer is alive at any time and
\* none is alive while isCameraOn is false.
C31_OneFrameTimer == timers <= 1 /\ (~isCameraOn => timers = 0)

\* C32 (variant A): at most one captured image frame waits to be sent; the
\* frames captured while the session promise is pending are not all delivered
\* when the channel opens.
C32_AtMostOneFrameWaits ==
  variant = "A" => \A p \in Procs : procs[p].images <= 1

\* C35: after a shutdown no capture stream is live: every microphone and every
\* camera stream acquired since the wake has been stopped.
C35_ShutdownStopsCapture ==
  lastOp = "stopSession" => streams = 0 /\ camStreams = 0

\* C33 (variant A): the state is LISTENING or SPEAKING only while the channel
\* of the current session is open.
C33_ListeningOnlyWhileOpen ==
  (variant = "A" /\ robotState \in {"LISTENING", "SPEAKING"})
    => /\ sessionPromiseRef # NoProc
       /\ procs[sessionPromiseRef].ch = "open"

\* C34 (variant A): whenever the in-flight set is empty the cursor is not
\* later than the output clock, so the next fragment starts at once.
C34_IdleCursorNotAhead ==
  (variant = "A" /\ outputAudioCtxRef /\ sourcesRef = {})
    => nextStartTimeRef <= clock

\* C36: the state THINKING is never reached.
C36_ThinkingUnreachable == robotState # "THINKING"

\* A turn ended, its fragment played out and the state went back to
\* LISTENING: the state passed through no THINKING on the way.
C36_Witness ==
  /\ lastOp = "onended" /\ nMsgs > 0 /\ robotState = "LISTENING"
  /\ lastFlush = NoFlush /\ history # <<>>

\* The last two entries of a log.
LastTwo(h) == SubSeq(h, Len(h) - 1, Len(h))

\* C37: when a turnComplete is handled while both accumulators are non-empty,
\* a 'user' entry and then a 'robot' entry are appended to the log, next to
\* each other and after every entry the log already had.
C37_UserThenRobot ==
  [][(lastFlush'.flushed /\ liveInput # <<>> /\ liveOutput # <<>>)
     => /\ Len(history') >= 2
        /\ history'[Len(history') - 1].type = "user"
        /\ history'[Len(history')].type = "robot"
        /\ history' = LastEntries(history \o LastTwo(history'))]_vars

\* C38 (variant A): a second shutdown right after a shutdown leaves the
\* interaction state, the flags, the in-flight set, the cursor, the
\* accumulators, the session references, the transcript log and the channels
\* as the first one left them.
C38_ShutdownIdempotent ==
  [][(variant = "A" /\ lastOp = "stopSession" /\ lastOp' = "stopSession")
     => /\ <<robotState, mood, isActive, isCameraOn, isMuted, isDeafened,
             volume, liveInput, liveOutput>>'
             = <<robotState, mood, isActive, isCameraOn, isMuted, isDeafened,
                 volume, liveInput, liveOutput>>
        /\ <<sourcesRef, nextStartTimeRef, sessionRef, sessionPromiseRef,
             streamRef, inputAudioCtxRef, outputAudioCtxRef>>'
             = <<sourcesRef, nextStartTimeRef, sessionRef, sessionPromiseRef,
                 streamRef, inputAudioCtxRef, outputAudioCtxRef>>
        /\ procs' = procs
        /\ history' = history]_vars


====
